---- MODULE Spec2Model ----
(***************************************************************************)
(* Task mutation and audit history of the task-management API.             *)
(*                                                                         *)
(* The store is the Task collection (tasks) and the TaskHistory collection *)
(* (history, in insertion order).  Every service function of               *)
(* services/taskService.js is one action; a request runs to completion     *)
(* before the next one starts (sequential model).                          *)
(*                                                                         *)
(* JavaScript objects (request bodies, documents) are functions whose      *)
(* DOMAIN is the set of keys that are present.  JavaScript strings are     *)
(* TLA+ strings.  A stored dueDate is a Date, modelled by its day number;  *)
(* a dueDate of a request body is a string.  Document timestamps           *)
(* createdAt and updatedAt are not modelled; the changeDate of a history   *)
(* entry is the day it was saved.                                          *)
(*                                                                         *)
(* Spec serves every request in one step.  SpecSteps serves updateTask,    *)
(* updateTaskStatus, addComment and deleteTask one store operation at a    *)
(* time, so that the calls in flight interleave at their awaits.           *)
(***************************************************************************)
EXTENDS Integers, Sequences, FiniteSets, TLC

VARIABLES
    tasks,      \* Task collection: task id -> document
    history,    \* TaskHistory collection: sequence of documents, oldest first
    nextId,     \* the next fresh task id (ids are uuids in the code: never reused)
    requests,   \* number of requests served so far
    projects,   \* Project collection: the ids of the projects that exist
    calls,      \* the calls in flight: call id -> what the call still has to do
    now,        \* the day it is (new Date()), in days since 1970-01-01
    users,      \* User collection: user id -> document
    cache,      \* the cache of the user service: key -> cached value
    last        \* the last request served: its inputs, the store before it, its outcome

vars == <<tasks, history, nextId, requests, projects, calls, now, users, cache, last>>

----------------------------------------------------------------------------
(* Bounds of the model *)

\* requests served in one run of Spec
MaxRequests == 3

\* requests served in one run of SpecCap
MaxCapRequests == 23

\* tasks that SpecCap puts into the second project
MaxOther == 2

\* calls started in one run of SpecSteps, and calls in flight at a time
MaxStepRequests == 3

MaxInFlight == 2

\* requests served in one run of SpecProjects
MaxProjectRequests == 4

\* tasks in the store at the start of SpecReport, and reports made in a run
MaxReportTasks == 4

MaxReportRequests == 1

\* requests served in one run of SpecCapSteps
MaxCapStepRequests == 3

\* requests served in one run of SpecUsers
MaxUserRequests == 3

\* times the clock is advanced in one run of SpecProjects
MaxTicks == 1

(* Program constants *)

\* the limit of tasks per project
TaskLimit == 20

STATUSES == {"Pendente", "EmAndamento", "Concluida"}

PRIORITIES == {"Baixa", "Media", "Alta"}

DEFAULT_STATUS == "Pendente"

\* the users registered before the run starts
Users == {"u1", "u2", "u3"}

\* the role of each of them
Role == [u1 |-> "Manager", u2 |-> "User", u3 |-> "User"]

\* the day the run starts
StartDay == 20000

\* the days of performance the report covers
ReportWindowDays == 30

\* the day of new Date(n) for a number n of a few milliseconds: 1970-01-01
EpochDay == 0

\* the projects that were created before the run starts
Projects == {"P1", "P2"}

\* the days of the model's calendar
Days == {1, 2}

----------------------------------------------------------------------------
(* JavaScript values *)

\* what reading a missing key gives
UNDEFINED == "<undefined>"

Has(o, k) == k \in DOMAIN o

Get(o, k) == IF Has(o, k) THEN o[k] ELSE UNDEFINED

\* the value null
NULL == "<null>"

\* truthiness of a string, null or undefined value
JsTruthy(v) == v # UNDEFINED /\ v # NULL /\ v # ""

Truthy(o, k) == Has(o, k) /\ JsTruthy(o[k])

\* delete o[k]
Without(o, k) == [x \in DOMAIN o \ {k} |-> o[x]]

EmptyObj == <<>>

\* { k: v } when v is defined, {} otherwise
Field(k, v) == IF v = UNDEFINED THEN EmptyObj ELSE (k :> v)

RECURSIVE TrimLeft(_)
TrimLeft(s) ==
    IF Len(s) > 0 /\ SubSeq(s, 1, 1) = " " THEN TrimLeft(SubSeq(s, 2, Len(s))) ELSE s

RECURSIVE TrimRight(_)
TrimRight(s) ==
    IF Len(s) > 0 /\ SubSeq(s, Len(s), Len(s)) = " "
    THEN TrimRight(SubSeq(s, 1, Len(s) - 1))
    ELSE s

\* the schema option trim: true
Trim(s) == TrimRight(TrimLeft(s))

\* an ISO date string of a request body, as in the documented example
IsoString(d) == "2025-12-0" \o ToString(d) \o "T23:59:59.000Z"

\* Date.prototype.toString(): what a Date becomes when it is turned into a string
DateToString(d) == "Mon Dec 0" \o ToString(d) \o " 2025 23:59:59 GMT+0000"

\* the cast of a date string to a Date (both renderings parse)
ParseDate(s) == CHOOSE d \in Days : s = IsoString(d) \/ s = DateToString(d)

\* task.dueDate != taskData.dueDate: a Date compared loosely with a string is
\* first turned into its string
DateLooseNotEqual(date, s) == DateToString(date) # s

----------------------------------------------------------------------------
(* The Task model (models/taskModel.js) *)

\* new Task({...taskData}) followed by task.projectId = projectId: the schema
\* keeps its own paths, trims title and description, casts dueDate to a Date
\* and gives status its default when the data has none
NewTask(taskData, projectId) ==
    (IF Has(taskData, "title") THEN "title" :> Trim(taskData.title) ELSE EmptyObj)
    @@ (IF Has(taskData, "description")
        THEN "description" :> Trim(taskData.description) ELSE EmptyObj)
    @@ ("status" :> (IF Has(taskData, "status") THEN taskData.status ELSE DEFAULT_STATUS))
    @@ (IF Has(taskData, "priority") THEN "priority" :> taskData.priority ELSE EmptyObj)
    @@ (IF Has(taskData, "dueDate") THEN "dueDate" :> ParseDate(taskData.dueDate) ELSE EmptyObj)
    @@ ("projectId" :> projectId)

\* the validation task.save() runs: required paths and enums
ValidTask(doc) ==
    /\ Truthy(doc, "title")
    /\ doc.status \in STATUSES
    /\ Has(doc, "priority") /\ doc.priority \in PRIORITIES
    /\ Has(doc, "dueDate")
    /\ Truthy(doc, "projectId")

\* (mutant) the schema without immutable: true on priority
UpdatablePathsNoImmutable ==
    {"title", "description", "status", "dueDate", "projectId", "priority"}

\* the paths of the schema that an update may set; priority is immutable: true
\* and an update never writes it
UpdatablePaths == {"title", "description", "status", "dueDate", "projectId"}

\* the cast of one value of an update
CastPath(k, v) ==
    IF k \in {"title", "description"} THEN Trim(v)
    ELSE IF k = "dueDate" THEN ParseDate(v)
    ELSE v

\* the document after the update is applied to it (no validators run on update)
ApplyUpdate(doc, update) ==
    [k \in DOMAIN doc \cup (DOMAIN update \cap UpdatablePaths) |->
        IF k \in DOMAIN update \cap UpdatablePaths THEN CastPath(k, update[k]) ELSE doc[k]]

\* Task.findByIdAndUpdate(id, update, { new: true }) on the collection ts
FindByIdAndUpdate(ts, id, update) ==
    IF id \in DOMAIN ts THEN [ts EXCEPT ![id] = ApplyUpdate(@, update)] ELSE ts

\* Task.findByIdAndDelete(id)
FindByIdAndDelete(ts, id) == [x \in DOMAIN ts \ {id} |-> ts[x]]

\* the virtual taskCount of a project, populated: a live count
TaskCount(ts, projectId) == Cardinality({x \in DOMAIN ts : ts[x].projectId = projectId})

(* The TaskHistory model (models/taskHistoryModel.js) *)

\* new TaskHistory({...}), as saved: undefined values leave no key, comment is
\* trimmed, changeDate is the time of the save
NewTaskHistory(taskId, userId, changeType, fieldName, oldValue, newValue, comment) ==
    [taskId |-> taskId, userId |-> userId, changeType |-> changeType,
     changeDate |-> now]
    @@ Field("fieldName", fieldName)
    @@ Field("oldValue", oldValue)
    @@ Field("newValue", newValue)
    @@ (IF comment = UNDEFINED THEN EmptyObj ELSE "comment" :> Trim(comment))

\* (mutant) a deleteMany whose filter matches every entry
DeleteManyHistoryAll(h, taskId) == SelectSeq(h, LAMBDA e : FALSE)

\* TaskHistory.deleteMany({ taskId: taskId })
DeleteManyHistory(h, taskId) == SelectSeq(h, LAMBDA e : e.taskId # taskId)

(* middlewares/utils.js *)

\* (mutant) a checkUser that does not look the user up
CheckUserNoLookup(id) == IF ~JsTruthy(id) THEN "UserMissing" ELSE "ok"

\* checkUser: the error it throws, or "ok"
CheckUser(id) ==
    IF ~JsTruthy(id) THEN "UserMissing"
    ELSE IF id \notin DOMAIN users THEN "UserNotFound"
    ELSE "ok"

\* checkProject
CheckProject(id) == IF id \in projects THEN "ok" ELSE "ProjectNotFound"

\* checkTask
CheckTask(ts, id) == IF id \in DOMAIN ts THEN "ok" ELSE "TaskNotFound"

\* (mutant) checkTaskStatus without the rule that Concluida is final
CheckTaskStatusNoFinal(newValue, oldValue) ==
    IF ~JsTruthy(newValue) \/ newValue \notin STATUSES THEN "InvalidStatus" ELSE "ok"

\* (mutant) checkTaskStatus with its two tests in the other order
CheckTaskStatusFinalFirst(newValue, oldValue) ==
    IF oldValue = "Concluida" /\ newValue # "Concluida" THEN "InvalidTransition"
    ELSE IF ~JsTruthy(newValue) \/ newValue \notin STATUSES THEN "InvalidStatus"
    ELSE "ok"

\* checkTaskStatus: the error it throws, or "ok"
CheckTaskStatus(newValue, oldValue) ==
    IF ~JsTruthy(newValue) \/ newValue \notin STATUSES THEN "InvalidStatus"
    ELSE IF oldValue = "Concluida" /\ newValue # "Concluida" THEN "InvalidTransition"
    ELSE "ok"

----------------------------------------------------------------------------
(* services/taskService.js: what each function does to the store.  A run    *)
(* gives the outcome ("ok", or the error thrown), the two collections after *)
(* it, the store writes it made, in the order it made them, and the update  *)
(* it handed to Task.findByIdAndUpdate (payload).                           *)

Thrown(error) ==
    [outcome |-> error, tasks |-> tasks, history |-> history, nextId |-> nextId,
     writes |-> <<>>, payload |-> EmptyObj]

\* (mutant) a creation message that leaves the title out
CreationMessageNoTitle(title) == "Tarefa foi criada."

\* the message of the history entry of a creation
CreationMessage(title) == "Tarefa '" \o title \o "' foi criada."

CreateTaskForProjectRun(userId, projectId, taskData) ==
    IF CheckUser(userId) # "ok" THEN Thrown(CheckUser(userId))
    ELSE IF CheckProject(projectId) # "ok" THEN Thrown(CheckProject(projectId))
    ELSE IF TaskCount(tasks, projectId) >= TaskLimit THEN Thrown("TaskLimit")
    ELSE LET task == NewTask(taskData, projectId)
         IN  IF ~ValidTask(task) THEN Thrown("ValidationError")
             ELSE [outcome |-> "ok",
                   tasks   |-> (nextId :> task) @@ tasks,
                   history |-> Append(history,
                                  NewTaskHistory(nextId, userId, "Create", UNDEFINED,
                                      UNDEFINED, CreationMessage(task.title), UNDEFINED)),
                   nextId  |-> nextId + 1,
                   writes  |-> <<"Task.save", "TaskHistory.save">>,
                   payload |-> EmptyObj]

\* if (taskData.priority) delete taskData.priority
StripPriority(taskData) ==
    IF Truthy(taskData, "priority") THEN Without(taskData, "priority") ELSE taskData

\* (mutant) the entries of updateTask with the one of the status saved first
UpdateEntriesStatusFirst(userId, taskId, task, taskData) ==
    (IF Truthy(taskData, "status") /\ task.status # taskData.status
     THEN <<NewTaskHistory(taskId, userId, "Update", "Status",
                task.status, taskData.status, UNDEFINED)>>
     ELSE <<>>)
    \o
    (IF Truthy(taskData, "title") /\ task.title # taskData.title
     THEN <<NewTaskHistory(taskId, userId, "Update", "Title",
                task.title, taskData.title, UNDEFINED)>>
     ELSE <<>>)
    \o
    (IF Truthy(taskData, "description") /\ Get(task, "description") # taskData.description
     THEN <<NewTaskHistory(taskId, userId, "Update", "Description",
                Get(task, "description"), taskData.description, UNDEFINED)>>
     ELSE <<>>)
    \o
    (IF Truthy(taskData, "dueDate") /\ DateLooseNotEqual(task.dueDate, taskData.dueDate)
     THEN <<NewTaskHistory(taskId, userId, "Update", "DueTo",
                DateToString(task.dueDate), taskData.dueDate, UNDEFINED)>>
     ELSE <<>>)

\* the history entries updateTask saves for the task document and the data,
\* in the order of the code: Title, Description, DueTo, Status
UpdateEntries(userId, taskId, task, taskData) ==
    (IF Truthy(taskData, "title") /\ task.title # taskData.title
     THEN <<NewTaskHistory(taskId, userId, "Update", "Title",
                task.title, taskData.title, UNDEFINED)>>
     ELSE <<>>)
    \o
    (IF Truthy(taskData, "description") /\ Get(task, "description") # taskData.description
     THEN <<NewTaskHistory(taskId, userId, "Update", "Description",
                Get(task, "description"), taskData.description, UNDEFINED)>>
     ELSE <<>>)
    \o
    (IF Truthy(taskData, "dueDate") /\ DateLooseNotEqual(task.dueDate, taskData.dueDate)
     THEN <<NewTaskHistory(taskId, userId, "Update", "DueTo",
                DateToString(task.dueDate), taskData.dueDate, UNDEFINED)>>
     ELSE <<>>)
    \o
    (IF Truthy(taskData, "status") /\ task.status # taskData.status
     THEN <<NewTaskHistory(taskId, userId, "Update", "Status",
                task.status, taskData.status, UNDEFINED)>>
     ELSE <<>>)

\* (mutant) an updateTask that tests the status where it records it: after
\* the entries of the other fields are saved
UpdateTaskRunLateCheck(userId, taskId, taskData) ==
    IF CheckUser(userId) # "ok" THEN Thrown(CheckUser(userId))
    ELSE IF CheckTask(tasks, taskId) # "ok" THEN Thrown(CheckTask(tasks, taskId))
    ELSE LET task    == tasks[taskId]
             checked == CheckTaskStatus(Get(taskData, "status"), task.status)
             data    == StripPriority(taskData)
             entries == UpdateEntries(userId, taskId, task, data)
             early   == UpdateEntries(userId, taskId, task, Without(data, "status"))
         IN  IF checked # "ok"
             THEN [outcome |-> checked, tasks |-> tasks,
                   history |-> history \o early, nextId |-> nextId,
                   writes  |-> [i \in 1..Len(early) |-> "TaskHistory.save"],
                   payload |-> EmptyObj]
             ELSE [outcome |-> "ok",
                   tasks   |-> FindByIdAndUpdate(tasks, taskId, data),
                   history |-> history \o entries,
                   nextId  |-> nextId,
                   writes  |-> [i \in 1..Len(entries) |-> "TaskHistory.save"]
                               \o <<"Task.findByIdAndUpdate">>,
                   payload |-> data]

UpdateTaskRun(userId, taskId, taskData) ==
    IF CheckUser(userId) # "ok" THEN Thrown(CheckUser(userId))
    ELSE IF CheckTask(tasks, taskId) # "ok" THEN Thrown(CheckTask(tasks, taskId))
    ELSE LET task    == tasks[taskId]
             checked == CheckTaskStatus(Get(taskData, "status"), task.status)
             data    == StripPriority(taskData)
             entries == UpdateEntries(userId, taskId, task, data)
         IN  IF checked # "ok" THEN Thrown(checked)
             ELSE [outcome |-> "ok",
                   tasks   |-> FindByIdAndUpdate(tasks, taskId, data),
                   history |-> history \o entries,
                   nextId  |-> nextId,
                   writes  |-> [i \in 1..Len(entries) |-> "TaskHistory.save"]
                               \o <<"Task.findByIdAndUpdate">>,
                   payload |-> data]

\* (mutant) an updateTaskStatus that records the status without comparing it
\* with the stored one
UpdateTaskStatusRunNoCompare(userId, taskId, taskData) ==
    IF CheckUser(userId) # "ok" THEN Thrown(CheckUser(userId))
    ELSE IF CheckTask(tasks, taskId) # "ok" THEN Thrown(CheckTask(tasks, taskId))
    ELSE LET task    == tasks[taskId]
             checked == CheckTaskStatus(Get(taskData, "status"), task.status)
         IN  IF checked # "ok" THEN Thrown(checked)
             ELSE [outcome |-> "ok",
                   tasks   |-> FindByIdAndUpdate(tasks, taskId,
                                   [status |-> taskData.status]),
                   history |-> Append(history,
                                   NewTaskHistory(taskId, userId, "Update", "Status",
                                       task.status, taskData.status, UNDEFINED)),
                   nextId  |-> nextId,
                   writes  |-> <<"TaskHistory.save", "Task.findByIdAndUpdate">>,
                   payload |-> [status |-> taskData.status]]

UpdateTaskStatusRun(userId, taskId, taskData) ==
    IF CheckUser(userId) # "ok" THEN Thrown(CheckUser(userId))
    ELSE IF CheckTask(tasks, taskId) # "ok" THEN Thrown(CheckTask(tasks, taskId))
    ELSE LET task    == tasks[taskId]
             checked == CheckTaskStatus(Get(taskData, "status"), task.status)
             entries == IF task.status # taskData.status
                        THEN <<NewTaskHistory(taskId, userId, "Update", "Status",
                                   task.status, taskData.status, UNDEFINED)>>
                        ELSE <<>>
         IN  IF checked # "ok" THEN Thrown(checked)
             ELSE [outcome |-> "ok",
                   tasks   |-> FindByIdAndUpdate(tasks, taskId,
                                   [status |-> taskData.status]),
                   history |-> history \o entries,
                   nextId  |-> nextId,
                   writes  |-> [i \in 1..Len(entries) |-> "TaskHistory.save"]
                               \o <<"Task.findByIdAndUpdate">>,
                   payload |-> [status |-> taskData.status]]

\* (mutant) an addComment that saves no entry for an empty comment
AddCommentRunSkipEmpty(userId, taskId, taskData) ==
    IF CheckUser(userId) # "ok" THEN Thrown(CheckUser(userId))
    ELSE IF CheckTask(tasks, taskId) # "ok" THEN Thrown(CheckTask(tasks, taskId))
    ELSE [outcome |-> "ok",
          tasks   |-> FindByIdAndUpdate(tasks, taskId, EmptyObj),
          history |-> IF Truthy(taskData, "comment")
                      THEN Append(history,
                               NewTaskHistory(taskId, userId, "Comment", UNDEFINED,
                                   UNDEFINED, UNDEFINED, Get(taskData, "comment")))
                      ELSE history,
          nextId  |-> nextId,
          writes  |-> <<"TaskHistory.save", "Task.findByIdAndUpdate">>,
          payload |-> EmptyObj]

\* (mutant) an addComment that keeps only the latest comment of a task
AddCommentRunKeepLatest(userId, taskId, taskData) ==
    IF CheckUser(userId) # "ok" THEN Thrown(CheckUser(userId))
    ELSE IF CheckTask(tasks, taskId) # "ok" THEN Thrown(CheckTask(tasks, taskId))
    ELSE [outcome |-> "ok",
          tasks   |-> FindByIdAndUpdate(tasks, taskId, EmptyObj),
          history |-> Append(SelectSeq(history,
                                 LAMBDA e : ~(e.taskId = taskId
                                              /\ e.changeType = "Comment")),
                         NewTaskHistory(taskId, userId, "Comment", UNDEFINED, UNDEFINED,
                             UNDEFINED, Get(taskData, "comment"))),
          nextId  |-> nextId,
          writes  |-> <<"TaskHistory.save", "Task.findByIdAndUpdate">>,
          payload |-> EmptyObj]

AddCommentRun(userId, taskId, taskData) ==
    IF CheckUser(userId) # "ok" THEN Thrown(CheckUser(userId))
    ELSE IF CheckTask(tasks, taskId) # "ok" THEN Thrown(CheckTask(tasks, taskId))
    ELSE [outcome |-> "ok",
          tasks   |-> FindByIdAndUpdate(tasks, taskId, EmptyObj),
          history |-> Append(history,
                         NewTaskHistory(taskId, userId, "Comment", UNDEFINED, UNDEFINED,
                             UNDEFINED, Get(taskData, "comment"))),
          nextId  |-> nextId,
          writes  |-> <<"TaskHistory.save", "Task.findByIdAndUpdate">>,
          payload |-> EmptyObj]

\* deleteTask gives the removed document, or null when there was none
DeleteTaskRun(userId, taskId) ==
    IF CheckUser(userId) # "ok" THEN Thrown(CheckUser(userId))
    ELSE [outcome |-> IF taskId \in DOMAIN tasks THEN "ok" ELSE "null",
          tasks   |-> FindByIdAndDelete(tasks, taskId),
          history |-> DeleteManyHistory(history, taskId),
          nextId  |-> nextId,
          writes  |-> <<"TaskHistory.deleteMany", "Task.findByIdAndDelete">>,
          payload |-> EmptyObj]

----------------------------------------------------------------------------
(* The actions: one per service function.  A request is served in one step. *)

Serve(op, userId, projectId, taskId, data, run) ==
    /\ tasks' = run.tasks
    /\ history' = run.history
    /\ nextId' = run.nextId
    /\ requests' = requests + 1
    /\ UNCHANGED <<projects, calls, now, users, cache>>
    /\ last' = [op |-> op, userId |-> userId, projectId |-> projectId,
                taskId |-> taskId, data |-> data, outcome |-> run.outcome,
                writes |-> run.writes, payload |-> run.payload,
                tasks |-> tasks, history |-> history]

CreateTaskForProject(userId, projectId, taskData) ==
    Serve("createTaskForProject", userId, projectId, 0, taskData,
          CreateTaskForProjectRun(userId, projectId, taskData))

UpdateTask(userId, taskId, taskData) ==
    Serve("updateTask", userId, "", taskId, taskData,
          UpdateTaskRun(userId, taskId, taskData))

UpdateTaskStatus(userId, taskId, taskData) ==
    Serve("updateTaskStatus", userId, "", taskId, taskData,
          UpdateTaskStatusRun(userId, taskId, taskData))

AddComment(userId, taskId, taskData) ==
    Serve("addComment", userId, "", taskId, taskData,
          AddCommentRun(userId, taskId, taskData))

DeleteTask(userId, taskId) ==
    Serve("deleteTask", userId, "", taskId, EmptyObj, DeleteTaskRun(userId, taskId))

Init ==
    /\ tasks = <<>>
    /\ history = <<>>
    /\ nextId = 1
    /\ requests = 0
    /\ projects = Projects
    /\ calls = <<>>
    /\ now = StartDay
    /\ users = [u \in Users |-> [name |-> "n", role |-> Role[u]]]
    /\ cache = <<>>
    /\ last = [op |-> "none", userId |-> "", projectId |-> "", taskId |-> 0,
               data |-> EmptyObj, outcome |-> "ok", writes |-> <<>>,
               payload |-> EmptyObj, tasks |-> <<>>, history |-> <<>>]

----------------------------------------------------------------------------
(* The requests of Spec: a few tasks, every kind of input *)

\* the request body of the documented example
BaseTask ==
    [title |-> "a", description |-> "d", dueDate |-> IsoString(1), priority |-> "Alta"]

CreateData ==
    { BaseTask,
      [BaseTask EXCEPT !.title = " a "],
      [BaseTask EXCEPT !.title = ""],
      [BaseTask EXCEPT !.priority = "Baixa"],
      [BaseTask EXCEPT !.priority = "Urgente"],
      Without(BaseTask, "description"),
      Without(BaseTask, "dueDate"),
      BaseTask @@ [status |-> "Concluida"] }

\* every body from u1 for P1; one body for the other project, for another
\* user, for an unknown project, an unregistered user and a missing user id
CreateInputs ==
    ({"u1"} \X {"P1"} \X CreateData)
    \cup {<<"u1", "P2", BaseTask>>, <<"u2", "P1", BaseTask>>, <<"u1", "P9", BaseTask>>,
          <<"u9", "P1", BaseTask>>, <<"", "P1", BaseTask>>}

Opt(k, values) == {EmptyObj} \cup {k :> v : v \in values}

UpdateData ==
    {t @@ s : t \in Opt("title", {"a", "b", ""}),
              s \in Opt("status", STATUSES \cup {"Arquivada"})}
    \cup {[title |-> "b", status |-> "EmAndamento", priority |-> "Baixa"],
          [title |-> "b", status |-> "EmAndamento", priority |-> ""],
          [title |-> "b", status |-> "EmAndamento", priority |-> NULL],
          [status |-> "Pendente", priority |-> "Urgente"],
          [title |-> "b", priority |-> "Baixa"],
          [status |-> "Pendente", priority |-> "Baixa"]}
    \cup {d @@ dd @@ [status |-> "Pendente"] :
              d \in Opt("description", {"d", "e"}),
              dd \in Opt("dueDate", {IsoString(1), IsoString(2), DateToString(1)})}
    \cup {[title |-> "b", description |-> "e", dueDate |-> IsoString(2),
           status |-> s] : s \in {"EmAndamento", "Arquivada"}}
    \cup {[description |-> "", status |-> "Pendente"],
          [status |-> "Pendente", projectId |-> "P2"]}

StatusData == Opt("status", STATUSES \cup {"Arquivada", "", NULL})

CommentData == Opt("comment", {"c", " c ", ""})

\* every body from u1 for an existing task; one body from another user, for
\* a task that does not exist (nextId is the id of no task) and from an
\* unregistered user
TaskInputs(bodies, sample) ==
    ({"u1"} \X (DOMAIN tasks) \X bodies)
    \cup ({"u2"} \X (DOMAIN tasks) \X {sample})
    \cup {<<"u1", nextId, sample>>}
    \cup ({"u9"} \X (DOMAIN tasks \cup {nextId}) \X {sample})

DeleteInputs ==
    ({"u1"} \X (DOMAIN tasks \cup {nextId})) \cup ({"u2", "u9"} \X (DOMAIN tasks))

\* the run of Spec serves at most MaxRequests requests
More == requests < MaxRequests

Next ==
    \/ \E i \in CreateInputs : More /\ CreateTaskForProject(i[1], i[2], i[3])
    \/ \E i \in TaskInputs(UpdateData, [title |-> "b", status |-> "EmAndamento"]) :
           More /\ UpdateTask(i[1], i[2], i[3])
    \/ \E i \in TaskInputs(StatusData, [status |-> "EmAndamento"]) :
           More /\ UpdateTaskStatus(i[1], i[2], i[3])
    \/ \E i \in TaskInputs(CommentData, [comment |-> "c"]) :
           More /\ AddComment(i[1], i[2], i[3])
    \/ \E i \in DeleteInputs : More /\ DeleteTask(i[1], i[2])

Spec == Init /\ [][Next]_vars

----------------------------------------------------------------------------
(* The requests of SpecCap: many tasks, one kind of body.  Tasks are created *)
(* in P1 and, up to MaxOther of them, in P2; the newest task may be moved to *)
(* the other project by an update that carries a projectId.                   *)

MoreCap == requests < MaxCapRequests

RoomInOther == TaskCount(tasks, "P2") < MaxOther

CapCreateInputs ==
    {<<"u1", "P1", BaseTask>>}
    \cup (IF RoomInOther THEN {<<"u1", "P2", BaseTask>>} ELSE {})

CapMoveInputs ==
    IF nextId = 1 THEN {}
    ELSE LET t  == nextId - 1
             to == IF tasks[t].projectId = "P1" THEN "P2" ELSE "P1"
         IN  IF to = "P2" /\ ~RoomInOther THEN {}
             ELSE {<<"u1", t, [status |-> "Pendente", projectId |-> to]>>}

NextCap ==
    \/ \E i \in CapCreateInputs : MoreCap /\ CreateTaskForProject(i[1], i[2], i[3])
    \/ \E i \in CapMoveInputs : MoreCap /\ UpdateTask(i[1], i[2], i[3])

SpecCap == Init /\ [][NextCap]_vars

----------------------------------------------------------------------------
(* SpecSteps: the calls one store operation at a time.  A call in flight is  *)
(* a record of calls: the update it will hand to Task.findByIdAndUpdate      *)
(* (payload), the history entries it has still to save, in order (todo) and  *)
(* the ones it has saved (saved).  Everything a call computes between two    *)
(* awaits depends only on its arguments and on the task document it read, so *)
(* the first step of a call reads and computes, and each later step is one   *)
(* write.  createTaskForProject stays one step.                              *)

\* the slots for calls in flight
Slots == 1..MaxInFlight

\* what the step just taken did, for the properties
Step(op, userId, taskId, data, outcome, writes, payload) ==
    last' = [op |-> op, userId |-> userId, projectId |-> "", taskId |-> taskId,
             data |-> data, outcome |-> outcome, writes |-> writes,
             payload |-> payload, tasks |-> tasks, history |-> history]

\* checkUser, checkTask and checkTaskStatus, in the order updateTask and
\* updateTaskStatus call them
CheckUpdate(userId, taskId, taskData) ==
    IF CheckUser(userId) # "ok" THEN CheckUser(userId)
    ELSE IF CheckTask(tasks, taskId) # "ok" THEN CheckTask(tasks, taskId)
    ELSE CheckTaskStatus(Get(taskData, "status"), tasks[taskId].status)

\* the slot a new call takes: the first free one
FreeSlot(c) == c \notin DOMAIN calls /\ \A x \in Slots : x < c => x \in DOMAIN calls

\* a call starts: it reads the user and the task and either throws or goes on
\* to its writes
Begin(c, op, userId, taskId, taskData, error, call) ==
    /\ FreeSlot(c)
    /\ calls' = IF error = "ok" THEN (c :> call) @@ calls ELSE calls
    /\ requests' = requests + 1
    /\ Step(op, userId, taskId, taskData,
            IF error = "ok" THEN "pending" ELSE error, <<>>, EmptyObj)
    /\ UNCHANGED <<tasks, history, nextId, projects, now, users, cache>>

\* updateTask up to its first await of a write
UpdateTaskBegin(c, userId, taskId, taskData) ==
    LET error == CheckUpdate(userId, taskId, taskData)
        data  == StripPriority(taskData)
    IN  Begin(c, "updateTask", userId, taskId, taskData, error,
              [op |-> "updateTask", userId |-> userId, taskId |-> taskId,
               data |-> taskData, payload |-> data,
               todo |-> UpdateEntries(userId, taskId, tasks[taskId], data),
               saved |-> <<>>])

\* updateTaskStatus up to its first await of a write
UpdateTaskStatusBegin(c, userId, taskId, taskData) ==
    LET error == CheckUpdate(userId, taskId, taskData)
        task  == tasks[taskId]
    IN  Begin(c, "updateTaskStatus", userId, taskId, taskData, error,
              [op |-> "updateTaskStatus", userId |-> userId, taskId |-> taskId,
               data |-> taskData, payload |-> [status |-> taskData.status],
               todo |-> IF task.status # taskData.status
                        THEN <<NewTaskHistory(taskId, userId, "Update", "Status",
                                   task.status, taskData.status, UNDEFINED)>>
                        ELSE <<>>,
               saved |-> <<>>])

\* addComment up to its await of history.save()
AddCommentBegin(c, userId, taskId, taskData) ==
    LET error == IF CheckUser(userId) # "ok" THEN CheckUser(userId)
                 ELSE CheckTask(tasks, taskId)
    IN  Begin(c, "addComment", userId, taskId, taskData, error,
              [op |-> "addComment", userId |-> userId, taskId |-> taskId,
               data |-> taskData, payload |-> EmptyObj,
               todo |-> <<NewTaskHistory(taskId, userId, "Comment", UNDEFINED,
                              UNDEFINED, UNDEFINED, Get(taskData, "comment"))>>,
               saved |-> <<>>])

\* await history.save() of the next entry of call c
SaveHistory(c) ==
    /\ c \in DOMAIN calls
    /\ calls[c].op \in {"updateTask", "updateTaskStatus", "addComment"}
    /\ calls[c].todo # <<>>
    /\ history' = Append(history, [Head(calls[c].todo) EXCEPT !.changeDate = now])
    /\ calls' = [calls EXCEPT ![c].todo = Tail(@),
                              ![c].saved = Append(@, history'[Len(history')])]
    /\ Step(calls[c].op, calls[c].userId, calls[c].taskId, calls[c].data,
            "pending", <<"TaskHistory.save">>, EmptyObj)
    /\ UNCHANGED <<tasks, nextId, requests, projects, now, users, cache>>

\* await Task.findByIdAndUpdate(...) of call c, which gives null when the
\* task is no longer there; the call returns
WriteTask(c) ==
    /\ c \in DOMAIN calls
    /\ calls[c].op \in {"updateTask", "updateTaskStatus", "addComment"}
    /\ calls[c].todo = <<>>
    /\ tasks' = FindByIdAndUpdate(tasks, calls[c].taskId, calls[c].payload)
    /\ calls' = [x \in DOMAIN calls \ {c} |-> calls[x]]
    /\ Step(calls[c].op, calls[c].userId, calls[c].taskId, calls[c].data,
            IF calls[c].taskId \in DOMAIN tasks THEN "ok" ELSE "null",
            <<"Task.findByIdAndUpdate">>, calls[c].payload)
    /\ UNCHANGED <<history, nextId, requests, projects, now, users, cache>>

\* deleteTask up to the end of TaskHistory.deleteMany
DeleteTaskBegin(c, userId, taskId) ==
    /\ FreeSlot(c)
    /\ requests' = requests + 1
    /\ IF CheckUser(userId) # "ok"
       THEN /\ Step("deleteTask", userId, taskId, EmptyObj, CheckUser(userId),
                    <<>>, EmptyObj)
            /\ UNCHANGED <<history, calls>>
       ELSE /\ history' = DeleteManyHistory(history, taskId)
            /\ calls' = (c :> [op |-> "deleteTask", userId |-> userId,
                               taskId |-> taskId, data |-> EmptyObj,
                               payload |-> EmptyObj, todo |-> <<>>, saved |-> <<>>])
                        @@ calls
            /\ Step("deleteTask", userId, taskId, EmptyObj, "pending",
                    <<"TaskHistory.deleteMany">>, EmptyObj)
    /\ UNCHANGED <<tasks, nextId, projects, now, users, cache>>

\* await Task.findByIdAndDelete(taskId) of call c; the call returns
DeleteTaskEnd(c) ==
    /\ c \in DOMAIN calls
    /\ calls[c].op = "deleteTask"
    /\ tasks' = FindByIdAndDelete(tasks, calls[c].taskId)
    /\ calls' = [x \in DOMAIN calls \ {c} |-> calls[x]]
    /\ Step("deleteTask", calls[c].userId, calls[c].taskId, EmptyObj,
            IF calls[c].taskId \in DOMAIN tasks THEN "ok" ELSE "null",
            <<"Task.findByIdAndDelete">>, EmptyObj)
    /\ UNCHANGED <<history, nextId, requests, projects, now, users, cache>>

\* the bodies of SpecSteps: a change of every recorded field, a change of
\* the title, a body without status
StepUpdateData ==
    {[title |-> "b", description |-> "e", dueDate |-> IsoString(2),
      status |-> "EmAndamento"],
     [title |-> "b", status |-> "Pendente"],
     [title |-> "b"]}

StepStatusData == {[status |-> "Concluida"], [status |-> "Pendente"]}

StepCommentData == {[comment |-> "c"]}

\* the users and tasks of the calls of SpecSteps
StepTaskInputs(bodies) == {"u1"} \X (DOMAIN tasks \cup {nextId}) \X bodies

MoreSteps == requests < MaxStepRequests

NextSteps ==
    \/ MoreSteps /\ CreateTaskForProject("u1", "P1", BaseTask)
    \/ \E c \in Slots : \E i \in StepTaskInputs(StepUpdateData) :
           MoreSteps /\ UpdateTaskBegin(c, i[1], i[2], i[3])
    \/ \E c \in Slots : \E i \in StepTaskInputs(StepStatusData) :
           MoreSteps /\ UpdateTaskStatusBegin(c, i[1], i[2], i[3])
    \/ \E c \in Slots : \E i \in StepTaskInputs(StepCommentData) :
           MoreSteps /\ AddCommentBegin(c, i[1], i[2], i[3])
    \/ \E c \in Slots : \E u \in {"u1", "u9"} : \E t \in DOMAIN tasks :
           MoreSteps /\ DeleteTaskBegin(c, u, t)
    \/ \E c \in Slots : SaveHistory(c)
    \/ \E c \in Slots : WriteTask(c)
    \/ \E c \in Slots : DeleteTaskEnd(c)

SpecSteps == Init /\ [][NextSteps]_vars

----------------------------------------------------------------------------
(* SpecCapSteps: createTaskForProject one store operation at a time, on one *)
(* project.  A create in flight holds the count it read and the document it *)
(* is about to save, and after task.save() the history entry it is about to *)
(* save.  The run starts from the store that creates served one after the   *)
(* other have left: a project one or two tasks short of the limit.          *)

\* (mutant) a createTaskForProject that does not look at the count
CreateBeginNoLimit(c, userId, projectId, taskData) ==
    LET error == IF CheckUser(userId) # "ok" THEN CheckUser(userId)
                 ELSE CheckProject(projectId)
    IN  Begin(c, "createTaskForProject", userId, 0, taskData, error,
              [op |-> "createTaskForProject", userId |-> userId, taskId |-> 0,
               data |-> taskData, payload |-> EmptyObj,
               count |-> TaskCount(tasks, projectId),
               task |-> NewTask(taskData, projectId),
               todo |-> <<>>, saved |-> <<>>])

\* createTaskForProject up to task.save(): checkUser, checkProject, the
\* populate of taskCount and the test of the limit
CreateBegin(c, userId, projectId, taskData) ==
    LET count == TaskCount(tasks, projectId)
        error == IF CheckUser(userId) # "ok" THEN CheckUser(userId)
                 ELSE IF CheckProject(projectId) # "ok" THEN CheckProject(projectId)
                 ELSE IF count >= TaskLimit THEN "TaskLimit"
                 ELSE "ok"
    IN  Begin(c, "createTaskForProject", userId, 0, taskData, error,
              [op |-> "createTaskForProject", userId |-> userId, taskId |-> 0,
               data |-> taskData, payload |-> EmptyObj,
               count |-> count,
               task |-> NewTask(taskData, projectId),
               todo |-> <<>>, saved |-> <<>>])

\* await task.save() of call c: the document is validated and inserted
CreateSaveTask(c) ==
    /\ c \in DOMAIN calls
    /\ calls[c].op = "createTaskForProject"
    /\ calls[c].taskId = 0
    /\ IF ValidTask(calls[c].task)
       THEN /\ tasks' = (nextId :> calls[c].task) @@ tasks
            /\ nextId' = nextId + 1
            /\ calls' = [calls EXCEPT
                   ![c].taskId = nextId,
                   ![c].todo = <<NewTaskHistory(nextId, calls[c].userId, "Create",
                                     UNDEFINED, UNDEFINED,
                                     CreationMessage(calls[c].task.title),
                                     UNDEFINED)>>]
            /\ Step("createTaskForProject", calls[c].userId, 0, calls[c].data,
                    "pending", <<"Task.save">>, EmptyObj)
       ELSE /\ calls' = [x \in DOMAIN calls \ {c} |-> calls[x]]
            /\ Step("createTaskForProject", calls[c].userId, 0, calls[c].data,
                    "ValidationError", <<>>, EmptyObj)
            /\ UNCHANGED <<tasks, nextId>>
    /\ UNCHANGED <<history, requests, projects, now, users, cache>>

\* await history.save() of call c; the call returns
CreateSaveHistory(c) ==
    /\ c \in DOMAIN calls
    /\ calls[c].op = "createTaskForProject"
    /\ calls[c].todo # <<>>
    /\ history' = Append(history, [Head(calls[c].todo) EXCEPT !.changeDate = now])
    /\ calls' = [x \in DOMAIN calls \ {c} |-> calls[x]]
    /\ Step("createTaskForProject", calls[c].userId, 0, calls[c].data,
            "ok", <<"TaskHistory.save">>, EmptyObj)
    /\ UNCHANGED <<tasks, nextId, requests, projects, now, users, cache>>

\* the requests of SpecCapSteps: the documented body, and one without title
CapStepInputs ==
    {<<"u1", "P1", BaseTask>>, <<"u1", "P1", Without(BaseTask, "title")>>}

MoreCapSteps == requests < MaxCapStepRequests

\* the store after n calls createTaskForProject(u1, P1, BaseTask)
InitCapSteps ==
    /\ now = StartDay
    /\ \E n \in {TaskLimit - 2, TaskLimit - 1} :
           /\ tasks = [t \in 1..n |-> NewTask(BaseTask, "P1")]
           /\ history = [t \in 1..n |->
                            NewTaskHistory(t, "u1", "Create", UNDEFINED, UNDEFINED,
                                CreationMessage(BaseTask.title), UNDEFINED)]
           /\ nextId = n + 1
    /\ requests = 0
    /\ projects = Projects
    /\ calls = <<>>
    /\ users = [u \in Users |-> [name |-> "n", role |-> Role[u]]]
    /\ cache = <<>>
    /\ last = [op |-> "none", userId |-> "", projectId |-> "", taskId |-> 0,
               data |-> EmptyObj, outcome |-> "ok", writes |-> <<>>,
               payload |-> EmptyObj, tasks |-> <<>>, history |-> <<>>]

NextCapSteps ==
    \/ \E c \in Slots : \E i \in CapStepInputs :
           MoreCapSteps /\ CreateBegin(c, i[1], i[2], i[3])
    \/ \E c \in Slots : CreateSaveTask(c)
    \/ \E c \in Slots : CreateSaveHistory(c)

SpecCapSteps == InitCapSteps /\ [][NextCapSteps]_vars

----------------------------------------------------------------------------
(* services/projectService.js and services/reportService.js *)

\* the statuses that the query of deleteProject looks for
ACTIVE_STATUSES == {"Pendente", "EnAndamento"}

\* Task.exists({ projectId, status: { $in: [...] } })
HasActiveTasks(ts, projectId) ==
    \E t \in DOMAIN ts : ts[t].projectId = projectId /\ ts[t].status \in ACTIVE_STATUSES

\* the ids of Task.find({ projectId }).select('_id')
TasksOfProject(ts, projectId) == {t \in DOMAIN ts : ts[t].projectId = projectId}

\* (mutant) a deleteProject whose Task.deleteMany has no filter
DeleteProjectRunEveryTask(userId, projectId) ==
    IF CheckUser(userId) # "ok"
    THEN Thrown(CheckUser(userId)) @@ [projects |-> projects]
    ELSE IF HasActiveTasks(tasks, projectId)
    THEN Thrown("ActiveTasks") @@ [projects |-> projects]
    ELSE LET ids == TasksOfProject(tasks, projectId)
         IN  [outcome  |-> IF projectId \in projects THEN "ok" ELSE "null",
              tasks    |-> <<>>,
              history  |-> SelectSeq(history, LAMBDA e : e.taskId \notin ids),
              nextId   |-> nextId,
              writes   |-> (IF ids # {} THEN <<"TaskHistory.deleteMany">> ELSE <<>>)
                           \o <<"Task.deleteMany", "Project.findByIdAndDelete">>,
              payload  |-> EmptyObj,
              projects |-> projects \ {projectId}]

\* deleteProject: the history of the tasks of the project, then the tasks,
\* then the project, which need not exist (null is returned then)
DeleteProjectRun(userId, projectId) ==
    IF CheckUser(userId) # "ok"
    THEN Thrown(CheckUser(userId)) @@ [projects |-> projects]
    ELSE IF HasActiveTasks(tasks, projectId)
    THEN Thrown("ActiveTasks") @@ [projects |-> projects]
    ELSE LET ids == TasksOfProject(tasks, projectId)
         IN  [outcome  |-> IF projectId \in projects THEN "ok" ELSE "null",
              tasks    |-> [t \in DOMAIN tasks \ ids |-> tasks[t]],
              history  |-> SelectSeq(history, LAMBDA e : e.taskId \notin ids),
              nextId   |-> nextId,
              writes   |-> (IF ids # {} THEN <<"TaskHistory.deleteMany">> ELSE <<>>)
                           \o <<"Task.deleteMany", "Project.findByIdAndDelete">>,
              payload  |-> EmptyObj,
              projects |-> projects \ {projectId}]

DeleteProject(userId, projectId) ==
    LET run == DeleteProjectRun(userId, projectId)
    IN  /\ tasks' = run.tasks
        /\ history' = run.history
        /\ projects' = run.projects
        /\ requests' = requests + 1
        /\ UNCHANGED <<nextId, calls, now, users, cache>>
        /\ last' = [op |-> "deleteProject", userId |-> userId, projectId |-> projectId,
                    taskId |-> 0, data |-> EmptyObj, outcome |-> run.outcome,
                    writes |-> run.writes, payload |-> EmptyObj,
                    tasks |-> tasks, history |-> history, projects |-> projects]

\* Math.round(100 * total / distinct), for total / distinct rounded to two
\* places
AverageTimes100(total, distinct) == (200 * total + distinct) \div (2 * distinct)

\* the lower bound of the query on changeDate: new Date().getDate() - 30 is
\* the day of the month less 30, a number from -29 to 1, which the query
\* casts to the Date that many milliseconds from 1970-01-01
QueryBound(today) == EpochDay

\* (mutant) a query that finds every change of status
CompletedEntriesAnyStatus(h, today) ==
    SelectSeq(h, LAMBDA e : /\ e.changeDate >= QueryBound(today)
                            /\ e.changeType = "Update"
                            /\ Get(e, "fieldName") = "Status")

\* TaskHistory.find(query): the Update entries of a Status that became
\* Concluida, with a changeDate not before the bound
CompletedEntries(h, today) ==
    SelectSeq(h, LAMBDA e : /\ e.changeDate >= QueryBound(today)
                            /\ e.changeType = "Update"
                            /\ Get(e, "fieldName") = "Status"
                            /\ Get(e, "newValue") = "Concluida")

\* the report (without generatedAt, and with the average in hundredths)
Report(h, today) ==
    LET found == CompletedEntries(h, today)
        distinct == {found[i].userId : i \in 1..Len(found)}
    IN  IF Len(found) = 0
        THEN [totalTasksCompleted |-> 0, distinctUsersWhoCompletedTasks |-> 0,
              averageTasksCompletedPerUser |-> 0]
        ELSE [totalTasksCompleted |-> Len(found),
              distinctUsersWhoCompletedTasks |-> Cardinality(distinct),
              averageTasksCompletedPerUser |->
                  AverageTimes100(Len(found), Cardinality(distinct))]

NoReport == [totalTasksCompleted |-> -1]

\* (mutant) a getPerformanceReport that tests the role after its query
GetPerformanceReportRunLateCheck(userId) ==
    IF CheckUser(userId) # "ok"
    THEN [outcome |-> CheckUser(userId), reads |-> <<>>, report |-> NoReport]
    ELSE IF users[userId].role # "Manager"
    THEN [outcome |-> "Forbidden", reads |-> <<"TaskHistory.find">>, report |-> NoReport]
    ELSE [outcome |-> "ok", reads |-> <<"TaskHistory.find">>, report |-> Report(history, now)]

\* getPerformanceReport: the outcome, the queries made on the history and
\* the report returned
GetPerformanceReportRun(userId) ==
    IF CheckUser(userId) # "ok"
    THEN [outcome |-> CheckUser(userId), reads |-> <<>>, report |-> NoReport]
    ELSE IF users[userId].role # "Manager"
    THEN [outcome |-> "Forbidden", reads |-> <<>>, report |-> NoReport]
    ELSE [outcome |-> "ok", reads |-> <<"TaskHistory.find">>, report |-> Report(history, now)]

GetPerformanceReport(userId) ==
    LET run == GetPerformanceReportRun(userId)
    IN  /\ requests' = requests + 1
        /\ UNCHANGED <<tasks, history, nextId, projects, calls, now, users, cache>>
        /\ last' = [op |-> "getPerformanceReport", userId |-> userId,
                    projectId |-> "", taskId |-> 0, data |-> EmptyObj,
                    outcome |-> run.outcome, writes |-> <<>>, payload |-> EmptyObj,
                    tasks |-> tasks, history |-> history,
                    reads |-> run.reads, report |-> run.report]

(* The requests of SpecProjects: tasks of two projects, their statuses, the *)
(* removal of projects and the report                                        *)

ProjectCreateInputs ==
    {<<"u1", "P1", BaseTask>>, <<"u1", "P2", BaseTask>>,
     <<"u1", "P1", BaseTask @@ [status |-> "Concluida"]>>}

ProjectStatusInputs ==
    ({"u1"} \X (DOMAIN tasks) \X {[status |-> s] : s \in STATUSES})
    \cup ({"u2"} \X (DOMAIN tasks) \X {[status |-> "Concluida"]})

DeleteProjectInputs == ({"u1"} \X {"P1", "P2", "P9"}) \cup {<<"u9", "P1">>}

ReportInputs == {"u1", "u2", "u9", ""}

MoreProjects == requests < MaxProjectRequests

\* the days one advance of the clock takes: just over the report's window
TickDays == ReportWindowDays + 1

\* time passes between two requests
Tick ==
    /\ now < StartDay + MaxTicks * TickDays
    /\ now' = now + TickDays
    /\ last' = [op |-> "tick", userId |-> "", projectId |-> "", taskId |-> 0,
                data |-> EmptyObj, outcome |-> "ok", writes |-> <<>>,
                payload |-> EmptyObj, tasks |-> tasks, history |-> history]
    /\ UNCHANGED <<tasks, history, nextId, requests, projects, calls, users,
                   cache>>

NextProjects ==
    \/ \E i \in ProjectCreateInputs :
           MoreProjects /\ CreateTaskForProject(i[1], i[2], i[3])
    \/ \E i \in ProjectStatusInputs :
           MoreProjects /\ UpdateTaskStatus(i[1], i[2], i[3])
    \/ \E i \in DeleteProjectInputs : MoreProjects /\ DeleteProject(i[1], i[2])
    \/ \E u \in ReportInputs : MoreProjects /\ GetPerformanceReport(u)
    \/ Tick

SpecProjects == Init /\ [][NextProjects]_vars

----------------------------------------------------------------------------
(* SpecReport: the report as a function of the history.  The run starts     *)
(* from a store that earlier requests have left: up to MaxReportTasks tasks *)
(* of P1, each created by u1 and then given a status by some user.          *)

\* the choices for a task of the store: who gave it which status
Seeds == Users \X {"EmAndamento", "Concluida"}

\* the history that createTaskForProject(u1, P1, BaseTask) and
\* updateTaskStatus(f[t][1], t, {status: f[t][2]}) leave for the tasks 1..n
RECURSIVE SeededHistory(_, _)
SeededHistory(f, n) ==
    IF n = 0 THEN <<>>
    ELSE SeededHistory(f, n - 1)
         \o <<NewTaskHistory(n, "u1", "Create", UNDEFINED, UNDEFINED,
                   CreationMessage(BaseTask.title), UNDEFINED),
               NewTaskHistory(n, f[n][1], "Update", "Status", DEFAULT_STATUS,
                   f[n][2], UNDEFINED)>>

InitReport ==
    /\ now = StartDay
    /\ \E n \in 0..MaxReportTasks : \E f \in [1..n -> Seeds] :
           /\ tasks = [t \in 1..n |->
                          [NewTask(BaseTask, "P1") EXCEPT !.status = f[t][2]]]
           /\ history = SeededHistory(f, n)
           /\ nextId = n + 1
    /\ requests = 0
    /\ projects = Projects
    /\ calls = <<>>
    /\ users = [u \in Users |-> [name |-> "n", role |-> Role[u]]]
    /\ cache = <<>>
    /\ last = [op |-> "none", userId |-> "", projectId |-> "", taskId |-> 0,
               data |-> EmptyObj, outcome |-> "ok", writes |-> <<>>,
               payload |-> EmptyObj, tasks |-> <<>>, history |-> <<>>]

NextReport ==
    \E u \in ReportInputs : requests < MaxReportRequests /\ GetPerformanceReport(u)

SpecReport == InitReport /\ [][NextReport]_vars

----------------------------------------------------------------------------
(* services/userService.js, and SpecUsers: its calls one store or cache     *)
(* operation at a time.  users is the User collection and cache the cache,  *)
(* a function from keys to the values set.  A document that is null is the  *)
(* function without attributes.                                             *)

NoDoc == <<>>

\* the ids the store gives to new users, in the order it gives them
UserIds == <<"u1", "u2", "u3">>

\* `user:${id}`
CacheKey(resource, id) == resource \o ":" \o id

\* utils.getCache(key): the value set for the key, or null
GetCache(cch, key) == IF key \in DOMAIN cch THEN cch[key] ELSE NoDoc

\* utils.setCache(key, value)
SetCache(cch, key, value) == (key :> value) @@ cch

\* utils.invalidateCache(resource, id): the key is removed
InvalidateCache(cch, resource, id) ==
    [k \in DOMAIN cch \ {CacheKey(resource, id)} |-> cch[k]]

\* User.findById(id)
FindUserById(us, id) == IF id \in DOMAIN us THEN us[id] ELSE NoDoc

\* what the step just taken did: the call, its id and what it returned
UserStep(op, id, data, outcome, result) ==
    last' = [op |-> op, userId |-> id, projectId |-> "", taskId |-> 0,
             data |-> data, outcome |-> outcome, writes |-> <<>>,
             payload |-> EmptyObj, tasks |-> tasks, history |-> history,
             users |-> users, result |-> result]

\* createUser: user.save(), then the list of users is invalidated
CreateUser(userData) ==
    /\ nextId <= Len(UserIds)
    /\ users' = (UserIds[nextId] :> ([role |-> "User"] @@ userData)) @@ users
    /\ nextId' = nextId + 1
    /\ cache' = InvalidateCache(cache, "user", "all")
    /\ requests' = requests + 1
    /\ UserStep("createUser", UserIds[nextId], userData, "ok", users'[UserIds[nextId]])
    /\ UNCHANGED <<tasks, history, projects, calls, now>>

\* getUserById up to the end of utils.getCache: it returns what the cache
\* holds, or goes on to the store
GetUserByIdBegin(c, id) ==
    LET cachedUser == GetCache(cache, CacheKey("user", id))
    IN  /\ FreeSlot(c)
        /\ requests' = requests + 1
        /\ IF cachedUser # NoDoc
           THEN /\ UserStep("getUserById", id, EmptyObj, "cached", cachedUser)
                /\ UNCHANGED calls
           ELSE /\ calls' = (c :> [op |-> "getUserById", id |-> id,
                                   data |-> EmptyObj, found |-> FALSE,
                                   user |-> NoDoc]) @@ calls
                /\ UserStep("getUserById", id, EmptyObj, "pending", NoDoc)
        /\ UNCHANGED <<tasks, history, nextId, projects, now, users, cache>>

\* await User.findById(id) of call c
GetUserByIdFind(c) ==
    /\ c \in DOMAIN calls
    /\ calls[c].op = "getUserById"
    /\ ~calls[c].found
    /\ calls' = [calls EXCEPT ![c].found = TRUE,
                              ![c].user = FindUserById(users, calls[c].id)]
    /\ UserStep("getUserById", calls[c].id, EmptyObj, "pending", NoDoc)
    /\ UNCHANGED <<tasks, history, nextId, requests, projects, now, users, cache>>

\* await utils.setCache(cacheKey, user) of call c; the call returns
GetUserByIdSetCache(c) ==
    /\ c \in DOMAIN calls
    /\ calls[c].op = "getUserById"
    /\ calls[c].found
    /\ cache' = SetCache(cache, CacheKey("user", calls[c].id), calls[c].user)
    /\ calls' = [x \in DOMAIN calls \ {c} |-> calls[x]]
    /\ UserStep("getUserById", calls[c].id, EmptyObj, "found", calls[c].user)
    /\ UNCHANGED <<tasks, history, nextId, requests, projects, now, users>>

\* updateUser or deleteUser up to the end of its await of the store: us is
\* the collection after User.findByIdAndUpdate or User.findByIdAndDelete
WriteUser(c, op, id, userData, us) ==
    /\ FreeSlot(c)
    /\ requests' = requests + 1
    /\ users' = us
    /\ calls' = (c :> [op |-> op, id |-> id, data |-> userData,
                       found |-> id \in DOMAIN users,
                       user |-> FindUserById(IF op = "deleteUser" THEN users ELSE us,
                                             id)]) @@ calls
    /\ UserStep(op, id, userData, "pending", NoDoc)
    /\ UNCHANGED <<tasks, history, nextId, projects, now, cache>>

\* await User.findByIdAndUpdate(id, userData, { new: true })
UpdateUserWrite(c, id, userData) ==
    WriteUser(c, "updateUser", id, userData,
              IF id \in DOMAIN users
              THEN [users EXCEPT ![id] = userData @@ @]
              ELSE users)

\* await User.findByIdAndDelete(id)
DeleteUserWrite(c, id) ==
    WriteUser(c, "deleteUser", id, EmptyObj, [u \in DOMAIN users \ {id} |-> users[u]])

\* if (result) the keys of the list and of the user are invalidated; the
\* call of updateUser or deleteUser returns
WriteUserEnd(c) ==
    /\ c \in DOMAIN calls
    /\ calls[c].op \in {"updateUser", "deleteUser"}
    /\ cache' = IF calls[c].found
                THEN InvalidateCache(InvalidateCache(cache, "user", "all"),
                                     "user", calls[c].id)
                ELSE cache
    /\ calls' = [x \in DOMAIN calls \ {c} |-> calls[x]]
    /\ UserStep(calls[c].op, calls[c].id, calls[c].data,
                IF calls[c].found THEN "ok" ELSE "null", calls[c].user)
    /\ UNCHANGED <<tasks, history, nextId, requests, projects, now, users>>

\* the store with the one user u1, and nothing cached
InitUsers ==
    /\ tasks = <<>>
    /\ history = <<>>
    /\ nextId = 2
    /\ requests = 0
    /\ projects = Projects
    /\ calls = <<>>
    /\ now = StartDay
    /\ users = [u \in {UserIds[1]} |-> [name |-> "n", role |-> "User"]]
    /\ cache = <<>>
    /\ last = [op |-> "none", userId |-> "", projectId |-> "", taskId |-> 0,
               data |-> EmptyObj, outcome |-> "ok", writes |-> <<>>,
               payload |-> EmptyObj, tasks |-> <<>>, history |-> <<>>,
               users |-> <<>>, result |-> NoDoc]

\* the ids of the requests of SpecUsers: a user there from the start, and
\* the next one the store gives
UserIdInputs == {UserIds[1], UserIds[2]}

MoreUsers == requests < MaxUserRequests

NextUsers ==
    \/ MoreUsers /\ CreateUser([name |-> "n"])
    \/ \E c \in Slots : \E id \in UserIdInputs : MoreUsers /\ GetUserByIdBegin(c, id)
    \/ \E c \in Slots : \E id \in UserIdInputs :
           MoreUsers /\ UpdateUserWrite(c, id, [name |-> "m"])
    \/ \E c \in Slots : \E id \in UserIdInputs : MoreUsers /\ DeleteUserWrite(c, id)
    \/ \E c \in Slots : GetUserByIdFind(c)
    \/ \E c \in Slots : GetUserByIdSetCache(c)
    \/ \E c \in Slots : WriteUserEnd(c)

SpecUsers == InitUsers /\ [][NextUsers]_vars

----------------------------------------------------------------------------
(* Properties.  last.tasks and last.history are the store before the last   *)
(* request, tasks and history the store after it.                            *)

Served(op) == last.op = op

Succeeded(op) == last.op = op /\ last.outcome = "ok"

\* the last request named a registered user and an existing task
OnExistingTask == last.userId \in Users /\ last.taskId \in DOMAIN last.tasks

TaskBefore == last.tasks[last.taskId]

TaskAfter == tasks[last.taskId]

\* the history entries the last request appended
Added == SubSeq(history, Len(last.history) + 1, Len(history))

Appended == Len(history) >= Len(last.history)
            /\ SubSeq(history, 1, Len(last.history)) = last.history

\* C1: no request changes the priority of a task that it does not delete, so
\* a task's priority is always the one it was created with; and an updateTask
\* whose body carries another priority succeeds with the priority kept and
\* the title and the status of the body stored
PriorityImmutable ==
    /\ \A t \in DOMAIN tasks \cap DOMAIN last.tasks :
           tasks[t].priority = last.tasks[t].priority
    /\ (Succeeded("updateTask") /\ Has(last.data, "priority")
        /\ last.data.priority # TaskBefore.priority)
       => /\ TaskAfter.priority = TaskBefore.priority
          /\ Has(last.data, "title") => TaskAfter.title = last.data.title
          /\ Has(last.data, "status") => TaskAfter.status = last.data.status

PriorityImmutableWitness ==
    /\ Succeeded("updateTask")
    /\ Has(last.data, "priority") /\ last.data.priority \in PRIORITIES
    /\ last.data.priority # TaskBefore.priority
    /\ Has(last.data, "title") /\ last.data.title # TaskBefore.title
    /\ TaskAfter.title = last.data.title
    /\ TaskAfter.status # TaskBefore.status
    /\ TaskAfter.priority = TaskBefore.priority

\* C2: an updateTask or updateTaskStatus that asks a Concluida task for
\* Pendente or EmAndamento fails with InvalidTransition and changes nothing
CompletedIsFinal ==
    (/\ Served("updateTask") \/ Served("updateTaskStatus")
     /\ OnExistingTask
     /\ TaskBefore.status = "Concluida"
     /\ Get(last.data, "status") \in {"Pendente", "EmAndamento"})
    => /\ last.outcome = "InvalidTransition"
       /\ last.taskId \in DOMAIN tasks
       /\ TaskAfter.status = "Concluida"
       /\ tasks = last.tasks
       /\ history = last.history

CompletedIsFinalWitness ==
    /\ Served("updateTaskStatus")
    /\ OnExistingTask
    /\ TaskBefore.status = "Concluida"
    /\ \E e \in 1..Len(history) :
           /\ history[e].taskId = last.taskId
           /\ Get(history[e], "fieldName") = "Status"
           /\ history[e].newValue = "Concluida"
    /\ Get(last.data, "status") = "Pendente"
    /\ last.outcome = "InvalidTransition"
    /\ TaskAfter.status = "Concluida"

\* the guard of createTaskForProject alone: with TaskLimit tasks or more in
\* the project the call throws and writes nothing, and a task it creates is
\* at most the TaskLimit-th of its project
TaskLimitGuard ==
    (Served("createTaskForProject") /\ last.userId \in Users
     /\ last.projectId \in Projects)
    => IF TaskCount(last.tasks, last.projectId) >= TaskLimit
       THEN last.outcome = "TaskLimit" /\ tasks = last.tasks /\ history = last.history
       ELSE last.outcome = "ok" => TaskCount(tasks, last.projectId) <= TaskLimit

\* C3: no project ever holds more than TaskLimit tasks
TaskCapNeverExceeded == \A p \in Projects : TaskCount(tasks, p) <= TaskLimit

\* the fields updateTask records, and the fieldName it records each under
RecordedFields == {"title", "description", "dueDate", "status"}

HistoryName(f) ==
    CASE f = "title" -> "Title"
      [] f = "description" -> "Description"
      [] f = "dueDate" -> "DueTo"
      [] f = "status" -> "Status"

\* the body of the last request gives field f a value other than the stored one
Differs(f) ==
    /\ Has(last.data, f)
    /\ IF f = "dueDate" THEN ParseDate(last.data.dueDate) # TaskBefore.dueDate
       ELSE last.data[f] # Get(TaskBefore, f)

\* the body of the last request gives field f the stored value
Resent(f) == Has(last.data, f) /\ ~Differs(f)

\* entry e records the change the last request makes to field f
Records(e, f) ==
    /\ e.changeType = "Update"
    /\ Get(e, "fieldName") = HistoryName(f)
    /\ e.taskId = last.taskId
    /\ e.userId = last.userId
    /\ Get(e, "newValue") = last.data[f]
    /\ IF f = "dueDate" THEN Get(e, "oldValue") = DateToString(TaskBefore.dueDate)
       ELSE Get(e, "oldValue") = Get(TaskBefore, f)

\* C4: an updateTask on an existing task whose body holds a new title and no
\* status (with or without a priority) succeeds, stores the title, keeps the
\* status and the priority and appends exactly one entry, for Title
TitleOnlyUpdateSucceeds ==
    (/\ Served("updateTask") /\ OnExistingTask
     /\ DOMAIN last.data \subseteq {"title", "priority"}
     /\ Truthy(last.data, "title") /\ last.data.title # TaskBefore.title)
    => /\ last.outcome = "ok"
       /\ TaskAfter.title = last.data.title
       /\ TaskAfter.status = TaskBefore.status
       /\ TaskAfter.priority = TaskBefore.priority
       /\ Appended /\ Len(Added) = 1 /\ Records(Added[1], "title")

\* C5: a successful updateTask appends as many entries as there are recorded
\* fields to which its body gives a value other than the stored one, and one
\* entry for each of them, with the old and the new value
HistoryComplete ==
    Succeeded("updateTask")
    => /\ Appended
       /\ Len(Added) = Cardinality({f \in RecordedFields : Differs(f)})
       /\ \A f \in RecordedFields :
              Differs(f) =>
                  Cardinality({i \in 1..Len(Added) : Records(Added[i], f)}) = 1

\* C6: a successful updateTask appends no entry for a field to which its body
\* gives the stored value
NoOpSuppressed ==
    Succeeded("updateTask")
    => \A f \in RecordedFields :
           Resent(f) =>
               \A i \in 1..Len(Added) : Get(Added[i], "fieldName") # HistoryName(f)

\* the id of the task the last request created
Created == CHOOSE t \in DOMAIN tasks : t \notin DOMAIN last.tasks

\* C7: a successful createTaskForProject saves the task and then one history
\* entry: a Create entry of the task and the acting user whose newValue is the
\* creation message with the stored title, and nothing else
CreationRecorded ==
    Succeeded("createTaskForProject")
    => /\ DOMAIN tasks = DOMAIN last.tasks \cup {Created}
       /\ \A t \in DOMAIN last.tasks : tasks[t] = last.tasks[t]
       /\ history = Append(last.history,
              [taskId |-> Created, userId |-> last.userId, changeType |-> "Create",
               changeDate |-> now,
               newValue |-> "Tarefa '" \o tasks[Created].title \o "' foi criada."])
       /\ last.writes = <<"Task.save", "TaskHistory.save">>

CreationRecordedWitness ==
    /\ Succeeded("createTaskForProject")
    /\ last.data.title # tasks[Created].title
    /\ Len(last.history) > 0
    /\ history[Len(history)].newValue = "Tarefa 'a' foi criada."

\* C8: a task that createTaskForProject has just created has status Pendente
CreatedPending ==
    Succeeded("createTaskForProject") => tasks[Created].status = "Pendente"

\* C9 as stated: addComment with a comment text on an existing task appends
\* exactly one entry, a Comment entry of the task and the acting user whose
\* comment is the text as given, and changes no task
CommentRecordedVerbatim ==
    (Served("addComment") /\ OnExistingTask /\ Has(last.data, "comment"))
    => /\ last.outcome = "ok"
       /\ history = Append(last.history,
              [taskId |-> last.taskId, userId |-> last.userId,
               changeType |-> "Comment", changeDate |-> now,
               comment |-> last.data.comment])
       /\ tasks = last.tasks

\* C9 as amended: the comment of the entry is the text without its leading
\* and trailing blanks
CommentRecordedTrimmed ==
    (Served("addComment") /\ OnExistingTask /\ Has(last.data, "comment"))
    => /\ last.outcome = "ok"
       /\ history = Append(last.history,
              [taskId |-> last.taskId, userId |-> last.userId,
               changeType |-> "Comment", changeDate |-> now,
               comment |-> Trim(last.data.comment)])
       /\ tasks = last.tasks

CommentRecordedWitness ==
    /\ Succeeded("addComment")
    /\ Has(last.data, "comment") /\ last.data.comment = " c "
    /\ history[Len(history)].comment = "c"
    /\ Len(history) = Len(last.history) + 1

\* C10: after deleteTask no task has the id and no history entry refers to
\* it; the other tasks and the entries of the other tasks are as before
CascadeDelete ==
    (Served("deleteTask") /\ last.userId \in Users)
    => /\ last.taskId \notin DOMAIN tasks
       /\ \A i \in 1..Len(history) : history[i].taskId # last.taskId
       /\ DOMAIN tasks = DOMAIN last.tasks \ {last.taskId}
       /\ \A t \in DOMAIN tasks : tasks[t] = last.tasks[t]
       /\ history = SelectSeq(last.history, LAMBDA e : e.taskId # last.taskId)

CascadeDeleteWitness ==
    /\ Succeeded("deleteTask")
    /\ last.taskId \in DOMAIN last.tasks
    /\ \E i \in 1..Len(last.history) : last.history[i].taskId = last.taskId
    /\ Len(history) > 0
    /\ Cardinality(DOMAIN tasks) = 1

\* C11: checkTaskStatus, as updateTask and updateTaskStatus apply it to the
\* status of the body and the stored status, throws InvalidStatus exactly
\* when the new status is absent, null, empty or none of the three statuses
\* (also on a Concluida task); otherwise InvalidTransition exactly when the
\* stored status is Concluida and the new one is not; otherwise it passes.
\* When it throws, no collection is written.
StatusValidated ==
    ((Served("updateTask") \/ Served("updateTaskStatus")) /\ OnExistingTask)
    => LET illegal == \/ ~Has(last.data, "status")
                      \/ last.data.status \in {"", NULL}
                      \/ last.data.status \notin {"Pendente", "EmAndamento", "Concluida"}
           reopens == /\ ~illegal
                      /\ TaskBefore.status = "Concluida"
                      /\ last.data.status # "Concluida"
       IN  /\ last.outcome = "InvalidStatus" <=> illegal
           /\ last.outcome = "InvalidTransition" <=> reopens
           /\ last.outcome = "ok" <=> (~illegal /\ ~reopens)
           /\ last.outcome # "ok" =>
                  tasks = last.tasks /\ history = last.history /\ last.writes = <<>>

StatusValidatedWitness ==
    /\ Served("updateTaskStatus") /\ OnExistingTask
    /\ TaskBefore.status = "Concluida"
    /\ Get(last.data, "status") = "Arquivada"
    /\ last.outcome = "InvalidStatus"
    /\ Len(history) > 0 /\ tasks = last.tasks

\* the Update entries of task t for the field named name, in history h
EntriesOf(h, t, name) ==
    SelectSeq(h, LAMBDA e : e.taskId = t /\ e.changeType = "Update"
                            /\ Get(e, "fieldName") = name)

\* C12: updateTaskStatus on an existing task, with one of the three statuses
\* that does not reopen a Concluida task, succeeds; when the status is not
\* the stored one it appends exactly one Update entry named Status with the
\* stored status as oldValue and the new one as newValue, and the stored
\* status becomes the new one; when it is the stored one it appends nothing
\* and the task stays as it was.  No other task changes.
StatusUpdateRecorded ==
    (/\ Served("updateTaskStatus") /\ OnExistingTask
     /\ Get(last.data, "status") \in {"Pendente", "EmAndamento", "Concluida"}
     /\ ~(TaskBefore.status = "Concluida" /\ last.data.status # "Concluida"))
    => /\ last.outcome = "ok"
       /\ DOMAIN tasks = DOMAIN last.tasks
       /\ \A t \in DOMAIN tasks \ {last.taskId} : tasks[t] = last.tasks[t]
       /\ IF last.data.status # TaskBefore.status
          THEN /\ history = Append(last.history,
                      [taskId |-> last.taskId, userId |-> last.userId,
                       changeType |-> "Update", changeDate |-> now,
                       fieldName |-> "Status",
                       oldValue |-> TaskBefore.status, newValue |-> last.data.status])
               /\ TaskAfter = [TaskBefore EXCEPT !.status = last.data.status]
          ELSE /\ history = last.history
               /\ TaskAfter = TaskBefore

\* the same status applied a second time: one Status entry in total
StatusUpdateRecordedWitness ==
    /\ Succeeded("updateTaskStatus") /\ OnExistingTask
    /\ TaskBefore.status = "EmAndamento" /\ last.data.status = "EmAndamento"
    /\ TaskAfter.status = "EmAndamento"
    /\ history = last.history
    /\ Len(EntriesOf(history, last.taskId, "Status")) = 1
    /\ EntriesOf(history, last.taskId, "Status")[1].newValue = "EmAndamento"

\* C13: an updateTask on an existing task whose body gives title, description
\* or dueDate another value and carries a status that is none of the three
\* statuses, or that would reopen a Concluida task, throws the status error:
\* no task is changed and no history entry is written
UpdateAllOrNothing ==
    (/\ Served("updateTask") /\ OnExistingTask
     /\ \E f \in {"title", "description", "dueDate"} : Differs(f)
     /\ Has(last.data, "status")
     /\ \/ last.data.status \notin {"Pendente", "EmAndamento", "Concluida"}
        \/ TaskBefore.status = "Concluida" /\ last.data.status # "Concluida")
    => /\ last.outcome \in {"InvalidStatus", "InvalidTransition"}
       /\ tasks = last.tasks
       /\ history = last.history
       /\ last.writes = <<>>

UpdateAllOrNothingWitness ==
    /\ Served("updateTask") /\ OnExistingTask
    /\ TaskBefore.status = "Concluida"
    /\ Differs("title") /\ Get(last.data, "status") = "EmAndamento"
    /\ last.outcome = "InvalidTransition"
    /\ TaskAfter = TaskBefore /\ TaskAfter.title = "a"
    /\ history = last.history

\* C14: createTaskForProject for an unknown or missing user or a project
\* that does not exist, and updateTask, updateTaskStatus and addComment for
\* an unknown user or a task that does not exist, throw the error of the
\* failed check and write nothing: every task and every history entry is as
\* before
FailFast ==
    LET unknownUser == last.userId \notin Users
        userError   == IF last.userId = "" THEN "UserMissing" ELSE "UserNotFound"
    IN  /\ (Served("createTaskForProject")
            /\ (unknownUser \/ last.projectId \notin projects))
           => /\ last.outcome = IF unknownUser THEN userError ELSE "ProjectNotFound"
              /\ tasks = last.tasks /\ history = last.history /\ last.writes = <<>>
        /\ ((Served("updateTask") \/ Served("updateTaskStatus") \/ Served("addComment"))
            /\ (unknownUser \/ last.taskId \notin DOMAIN last.tasks))
           => /\ last.outcome = IF unknownUser THEN userError ELSE "TaskNotFound"
              /\ tasks = last.tasks /\ history = last.history /\ last.writes = <<>>

\* a comment on a task that does not exist, in a store that holds a task
FailFastWitness ==
    /\ Served("addComment")
    /\ last.userId \in Users /\ last.taskId \notin DOMAIN last.tasks
    /\ last.outcome = "TaskNotFound"
    /\ DOMAIN tasks # {} /\ Len(history) > 0
    /\ tasks = last.tasks /\ history = last.history

\* entry e is an Update entry of a change that the task document holds: the
\* task exists and its field has the new value of the entry, as stored
Persisted(e) ==
    /\ e.taskId \in DOMAIN tasks
    /\ \E f \in RecordedFields :
           /\ Get(e, "fieldName") = HistoryName(f)
           /\ Has(tasks[e.taskId], f)
           /\ tasks[e.taskId][f] = CastPath(f, e.newValue)

\* C15: the task document is written before the history entries of the
\* change: whenever a step of updateTask or updateTaskStatus has appended an
\* Update entry, the task exists and holds the new value of the entry
TaskWrittenBeforeHistory ==
    (Served("updateTask") \/ Served("updateTaskStatus"))
    => \A i \in 1..Len(Added) : Added[i].changeType = "Update" => Persisted(Added[i])

\* the position of a fieldName in the order of the recorded fields: title,
\* description, dueDate, status
Rank(name) ==
    CHOOSE r \in 1..4 :
        name = HistoryName(<<"title", "description", "dueDate", "status">>[r])

\* C16: every updateTask call saves its entries one at a time and in the
\* order of the fields title, description, dueDate, status: a step appends
\* at most one entry, the entries a call has saved are of different fields
\* in that order, and the entries it has still to save come after them
AuditOrder ==
    /\ Len(history) <= Len(last.history) + 1
    /\ \A c \in DOMAIN calls :
           calls[c].op = "updateTask"
           => LET all == calls[c].saved \o calls[c].todo
              IN  \A i, j \in 1..Len(all) :
                      i < j => Rank(all[i].fieldName) < Rank(all[j].fieldName)
    /\ (Served("updateTask") /\ last.writes = <<"TaskHistory.save">>)
       => /\ Appended /\ Len(Added) = 1
          /\ \E c \in DOMAIN calls :
                 /\ calls[c].saved # <<>>
                 /\ Added[1] = calls[c].saved[Len(calls[c].saved)]

\* a call that changes the four fields has saved its four entries and has
\* not yet written the task
AuditOrderWitness ==
    /\ Served("updateTask") /\ last.writes = <<"TaskHistory.save">>
    /\ Len(history) >= 5
    /\ LET n == Len(history)
       IN  /\ Get(history[n - 3], "fieldName") = "Title"
           /\ Get(history[n - 2], "fieldName") = "Description"
           /\ Get(history[n - 1], "fieldName") = HistoryName("dueDate")
           /\ Get(history[n], "fieldName") = "Status"
           /\ \A i \in (n - 3)..n : history[i].taskId = last.taskId
    /\ \E c \in DOMAIN calls : Len(calls[c].saved) = 4 /\ calls[c].todo = <<>>

\* C17: every Update entry has a fieldName among Title, Description,
\* DueDate and Status (a change of the due date is recorded as DueDate), only
\* Update entries have a fieldName and only Comment entries have a comment
EntryShape ==
    \A i \in 1..Len(history) :
        LET e == history[i]
        IN  /\ e.changeType = "Update"
               => Get(e, "fieldName") \in {"Title", "Description", "DueDate", "Status"}
            /\ Has(e, "fieldName") => e.changeType = "Update"
            /\ Has(e, "comment") => e.changeType = "Comment"

\* C18: the update that a successful updateTask hands to
\* Task.findByIdAndUpdate has no priority, whatever priority the body had
PriorityStripped ==
    (Succeeded("updateTask") /\ Has(last.data, "priority"))
    => ~Has(last.payload, "priority")

\* C19: deleteProject by a registered user on a project that has a task
\* with status Pendente or EmAndamento throws the error of the active tasks
\* and deletes nothing: tasks, history and projects are as before (so it
\* succeeds only when every task of the project is Concluida, or there is
\* none)
ProjectRemovalGuard ==
    (/\ Served("deleteProject") /\ last.userId \in Users
     /\ \E t \in DOMAIN last.tasks :
            /\ last.tasks[t].projectId = last.projectId
            /\ last.tasks[t].status \in {"Pendente", "EmAndamento"})
    => /\ last.outcome = "ActiveTasks"
       /\ tasks = last.tasks
       /\ history = last.history
       /\ projects = last.projects

\* C20: getPerformanceReport by a registered user whose role is not Manager
\* throws the permission error without a query on the history; a call that
\* returns a report was made by a Manager; and no call changes the store
ReportPermission ==
    Served("getPerformanceReport")
    => /\ (last.userId \in Users /\ Role[last.userId] # "Manager")
          => /\ last.outcome = "Forbidden"
             /\ last.reads = <<>>
             /\ last.report = NoReport
       /\ last.outcome = "ok"
          => /\ last.userId \in Users /\ Role[last.userId] = "Manager"
             /\ last.reads = <<"TaskHistory.find">>
       /\ last.report # NoReport => last.outcome = "ok"
       /\ tasks = last.tasks /\ history = last.history

\* a user who is no Manager is refused a report of a history that has a
\* completed task, and one completed by this user
ReportPermissionWitness ==
    /\ Served("getPerformanceReport")
    /\ last.userId = "u2" /\ Role["u2"] = "User"
    /\ last.outcome = "Forbidden" /\ last.reads = <<>>
    /\ \E i \in 1..Len(history) :
           /\ history[i].userId = "u2"
           /\ Get(history[i], "newValue") = "Concluida"

\* the history entries that record a change of a status to Concluida
Completions == {i \in 1..Len(history) :
                   /\ history[i].changeType = "Update"
                   /\ Get(history[i], "fieldName") = "Status"
                   /\ Get(history[i], "newValue") = "Concluida"}

\* C21: the report a Manager gets has totalTasksCompleted = the number of
\* entries that record a change of status to Concluida (in SpecReport every
\* entry is of the day of the report), distinctUsersWhoCompletedTasks = the
\* number of different userIds among them, and averageTasksCompletedPerUser
\* = their quotient to the nearest hundredth; without such an entry the
\* three are 0
ReportCorrect ==
    Succeeded("getPerformanceReport")
    => LET who == {history[i].userId : i \in Completions}
           r   == last.report
       IN  /\ r.totalTasksCompleted = Cardinality(Completions)
           /\ r.distinctUsersWhoCompletedTasks = Cardinality(who)
           /\ IF Completions = {}
              THEN r.averageTasksCompletedPerUser = 0
              ELSE LET d == 100 * Cardinality(Completions)
                            - r.averageTasksCompletedPerUser * Cardinality(who)
                   IN  -Cardinality(who) <= 2 * d /\ 2 * d <= Cardinality(who)

\* three completions by one user and one by another: 4, 2 and 2.0
ReportCorrectWitness ==
    /\ Succeeded("getPerformanceReport")
    /\ Cardinality({i \in Completions : history[i].userId = "u2"}) = 3
    /\ Cardinality({i \in Completions : history[i].userId = "u3"}) = 1
    /\ Cardinality(Completions) = 4
    /\ last.report = [totalTasksCompleted |-> 4,
                      distinctUsersWhoCompletedTasks |-> 2,
                      averageTasksCompletedPerUser |-> 200]

\* C22: the report counts exactly the completions whose changeDate is
\* within the ReportWindowDays days before the report is made
ReportWindow ==
    Succeeded("getPerformanceReport")
    => last.report.totalTasksCompleted =
           Cardinality({i \in Completions :
                           history[i].changeDate >= now - ReportWindowDays})

\* the entries of h that are not of task t
EntriesOfOthers(h, t) == SelectSeq(h, LAMBDA e : e.taskId # t)

\* C23: createTaskForProject, updateTask, updateTaskStatus and addComment
\* leave every entry the history had, unchanged and in place, and only add
\* entries after them; a deleteTask removes entries of its task only and
\* changes no other
AppendOnly ==
    IF Served("deleteTask")
    THEN /\ EntriesOfOthers(history, last.taskId)
            = EntriesOfOthers(last.history, last.taskId)
         /\ Len(history) <= Len(last.history)
    ELSE Appended

\* a comment on a task that has been commented before: both entries are kept
AppendOnlyWitness ==
    /\ Succeeded("addComment")
    /\ Len(Added) = 1
    /\ \E i \in 1..Len(last.history) :
           /\ last.history[i].taskId = last.taskId
           /\ last.history[i].changeType = "Comment"
           /\ history[i] = last.history[i]

\* C29: an updateTask changes at most the title, description, dueDate and
\* status of its task: every other attribute, projectId among them, is after
\* the request what it was before, whatever the body carries
UpdateFrame ==
    Served("updateTask") /\ OnExistingTask
    => \A k \in (DOMAIN TaskBefore \cup DOMAIN TaskAfter) \ RecordedFields :
           Get(TaskAfter, k) = Get(TaskBefore, k)

\* C28: after a deleteProject that succeeded the store has no task of the
\* project, no history entry of a task the project had, and no such project;
\* the history was removed before the tasks and the tasks before the
\* project; the tasks of other projects, their history and the other
\* projects are as they were
ProjectCascade ==
    Succeeded("deleteProject")
    => LET ids == TasksOfProject(last.tasks, last.projectId)
       IN  /\ TasksOfProject(tasks, last.projectId) = {}
           /\ \A i \in 1..Len(history) : history[i].taskId \notin ids
           /\ last.projectId \notin projects
           /\ last.writes = (IF ids # {} THEN <<"TaskHistory.deleteMany">> ELSE <<>>)
                            \o <<"Task.deleteMany", "Project.findByIdAndDelete">>
           /\ \A t \in DOMAIN last.tasks \ ids :
                  t \in DOMAIN tasks /\ tasks[t] = last.tasks[t]
           /\ history = SelectSeq(last.history, LAMBDA e : e.taskId \notin ids)
           /\ projects = last.projects \ {last.projectId}

\* a project with a task is deleted while another project has a task
ProjectCascadeWitness ==
    /\ Succeeded("deleteProject")
    /\ TasksOfProject(last.tasks, last.projectId) # {}
    /\ \E i \in 1..Len(last.history) :
           last.history[i].taskId \in TasksOfProject(last.tasks, last.projectId)
    /\ tasks # <<>>
    /\ history # <<>>

\* C25: when no call is in flight, every history entry is of a task that is
\* in the store, however a deleteTask was interleaved with the other calls
NoDanglingHistory ==
    calls = <<>> => \A i \in 1..Len(history) : history[i].taskId \in DOMAIN tasks

\* C26: a step of a call never takes the stored status of a task away from
\* Concluida, however updateTask and updateTaskStatus calls are interleaved
CompletedIsFinalInterleaved ==
    \A t \in DOMAIN last.tasks \cap DOMAIN tasks :
        last.tasks[t].status = "Concluida" => tasks[t].status = "Concluida"

\* the Update entries of the status of task t, in the order they were saved
StatusEntries(t) ==
    SelectSeq(history, LAMBDA e : /\ e.taskId = t
                                  /\ e.changeType = "Update"
                                  /\ Get(e, "fieldName") = "Status")

\* C30: when no call is in flight, for every task with an entry of a change
\* of status the newValue of the latest one is the stored status, the
\* oldValue of each is the newValue of the one before, and at most one
\* records a change to Concluida
StatusAuditConsistent ==
    calls = <<>>
    => \A t \in DOMAIN tasks :
           LET es == StatusEntries(t)
           IN  es # <<>>
               => /\ es[Len(es)].newValue = tasks[t].status
                  /\ \A i \in 2..Len(es) : es[i].oldValue = es[i - 1].newValue
                  /\ Cardinality({i \in 1..Len(es) : es[i].newValue = "Concluida"}) <= 1

\* the creates in flight
CreatesInFlight == {c \in DOMAIN calls : calls[c].op = "createTaskForProject"}

WritesInFlight(id) ==
    {c \in DOMAIN calls : calls[c].op \in {"updateUser", "deleteUser"}
                          /\ calls[c].id = id}

\* C27: a getUserById that is served from the cache while no updateUser or
\* deleteUser of its id is in flight, so after every one of them returned,
\* returns what User.findById gives
CacheTransparent ==
    /\ Served("getUserById")
    /\ last.outcome = "cached"
    /\ WritesInFlight(last.userId) = {}
    => last.result = FindUserById(users, last.userId)

====
